---- MODULE Spec2Model ----
(***************************************************************************)
(* A model of registry/handlers/app.go of the distribution registry:       *)
(*   - the request path: App.ServeHTTP, App.dispatcher, App.authorized,    *)
(*     App.nameRequired, appendAccessRecords, appendCatalogAccessRecord;   *)
(*   - the upload purger: uploadPurgeDefaultConfig, the purge             *)
(*     configuration NewApp derives, startUploadPurger and its goroutine;  *)
(*   - NewApp: the storage driver and its middlewares, the HTTP secret,    *)
(*     the registry options of the proxy, delete, tag, redirect,           *)
(*     validation and cache sections, the registry and its middlewares,    *)
(*     the access controller and the pull-through cache.                   *)
(* Durations and instants are whole seconds.                               *)
(***************************************************************************)
EXTENDS Integers, Sequences, FiniteSets, TLC

VARIABLES
    \* ---- request path ----
    accessController,  \* app.accessController # nil
    req,               \* the request being served (NoReq when idle)
    rpc,               \* where the request is in ServeHTTP / dispatcher
    resp,              \* the http.ResponseWriter of the request
    ctxUser,           \* the request context carries user and resources
    ctxErrors,         \* context.Errors
    acCalled,          \* accessController.Authorized was called for the request
    acRecords,         \* the access records it was called with
    acResult,          \* what it answered
    authErr,           \* what App.authorized returned: "none" (not returned yet), "nil", "err"
    log,               \* the steps the request went through, in order
    repoMiddleware,    \* app.Config.Middleware["repository"]
    repoErr,           \* the error of app.registry.Repository: "none" (not called yet), "nil", or its kind
    ctxRepository,     \* context.Repository (<<>> is nil)
    \* ---- upload purger ----
    storageMaintenance, \* config.Storage["maintenance"]["uploadpurging"] (Absent when not given)
    ppc,               \* where NewApp / the purger goroutine is
    purgeAge,          \* purgeAgeDuration
    purgeInterval,     \* intervalDuration
    dryRunBool,        \* dryRunBool
    randInt,           \* what rand.Int gave the goroutine
    jitter,            \* the start jitter (-1 before it is computed)
    wakeAt,            \* the instant the current time.Sleep ends
    sleepArg,          \* the argument of the current time.Sleep
    sleepFrom,         \* the instant the current time.Sleep was called
    now,               \* the clock
    started,           \* the instant the goroutine was started
    cancelled,         \* the application context (ctx of NewApp) is cancelled
    lastSweep,         \* the arguments of the last storage.PurgeUploads call
    nSweeps,           \* how many sweeps were started
    \* ---- appendAccessRecords on its own ----
    arg,               \* the arguments of a call of appendAccessRecords
    out,               \* its result (NoOut before the call)
    \* ---- NewApp ----
    given,             \* the configuration as NewApp is given it
    config,            \* the configuration, which NewApp writes to
    napc,              \* where NewApp is
    panicMsg,          \* what NewApp panicked with ("" when it did not)
    isCache,           \* app.isCache
    readOnly,          \* app.readOnly
    driver,            \* app.driver: the decorators around the storage driver (<<>> is nil)
    purgerDriver,      \* the driver startUploadPurger was given (<<>> before the call)
    redis,             \* app.redis # nil
    options,           \* the registry options collected so far
    registry,          \* app.registry: the decorators around the registry (<<>> is nil)
    registryOptions,   \* the options of the last storage.NewRegistry call
    nNewRegistry,      \* how many times storage.NewRegistry was called
    warnings           \* the warnings NewApp logged

reqVars == <<accessController, req, rpc, resp, ctxUser, ctxErrors, acCalled,
             acRecords, acResult, authErr, log, repoMiddleware, repoErr,
             ctxRepository>>
purgerVars == <<storageMaintenance, ppc, purgeAge, purgeInterval, dryRunBool,
                randInt, jitter, wakeAt, sleepArg, sleepFrom, now, started,
                cancelled, lastSweep, nSweeps>>
fnVars == <<arg, out>>
appVars == <<given, config, napc, panicMsg, isCache, readOnly, driver, purgerDriver, redis, options,
             registry, registryOptions, nNewRegistry, warnings>>
vars == <<reqVars, purgerVars, fnVars, appVars>>

Min(a, b) == IF a < b THEN a ELSE b

(***************************************************************************)
(* Bounds of the model.                                                    *)
(***************************************************************************)
\* the clock stops at MaxTime
MaxTime == 90000
\* a sleeping goroutine wakes at most MaxLate seconds after its deadline
MaxLate == 1
\* the longest list appendAccessRecords is given
MaxRecords == 2
\* the longest middleware list of a configuration section
MaxMiddlewares == 2
\* the longest manifest URL
MaxURLLen == 2
\* the most patterns validation.manifests.urls has, allow and deny together
MaxPatterns == 2
\* the longest validation.manifests.indexes.platformlist
MaxPlatforms == 2


(***************************************************************************)
(* Requests.                                                               *)
(***************************************************************************)
\* v2.RouteName*: the routes NewApp registers a dispatcher for.
RouteNameBase == "base"
RouteNameCatalog == "catalog"
RouteNames == {RouteNameBase, RouteNameCatalog, "manifest", "tags", "blob",
               "blob-upload", "blob-upload-chunk"}
\* mux.CurrentRoute(r) = nil
NilRoute == "nil"

\* net/http methods; OPTIONS stands for every method appendAccessRecords has no case for.
MethodGet == "GET"
MethodHead == "HEAD"
MethodPost == "POST"
MethodPut == "PUT"
MethodPatch == "PATCH"
MethodDelete == "DELETE"
Methods == {MethodGet, MethodHead, MethodPost, MethodPut, MethodPatch,
            MethodDelete, "OPTIONS"}

\* Repository names: two that reference.WithName accepts, one the router's
\* pattern accepts and reference.WithName rejects (longer than 255 characters),
\* and the empty name (no "name" variable on the route).
ValidNames == {"alice/app", "bob/app"}
LongName == "a/(256 characters)"
RepoNames == ValidNames \cup {LongName}
FromValues == {""} \cup ValidNames

NoReq == [entry |-> "none", matched |-> FALSE, route |-> NilRoute, name |-> "",
          from |-> "", method |-> MethodGet]

\* Requests that arrive through App.ServeHTTP: the router either matches one of
\* the registered routes, whose pattern binds a name exactly on the routes
\* other than base and catalog, or matches none.
RouterRequests ==
    {[entry |-> "ServeHTTP", matched |-> TRUE, route |-> rt, name |-> n,
      from |-> f, method |-> m] :
        rt \in RouteNames \ {RouteNameBase, RouteNameCatalog},
        n \in RepoNames, f \in FromValues, m \in Methods}
    \cup
    {[entry |-> "ServeHTTP", matched |-> TRUE, route |-> rt, name |-> "",
      from |-> f, method |-> m] :
        rt \in {RouteNameBase, RouteNameCatalog}, f \in FromValues, m \in Methods}
    \cup
    {[entry |-> "ServeHTTP", matched |-> FALSE, route |-> NilRoute, name |-> "",
      from |-> "", method |-> m] : m \in Methods}

\* Requests handed to the http.Handler App.dispatcher returns without the
\* application's router in front: no current route, or a route without a name.
DirectRequests ==
    {[entry |-> "dispatcher", matched |-> FALSE, route |-> rt, name |-> n,
      from |-> f, method |-> m] :
        rt \in {NilRoute, "manifest", "blob-upload"}, n \in {"", "alice/app"},
        f \in {"", "bob/app"}, m \in {MethodGet, MethodPost}}

Requests == RouterRequests \cup DirectRequests

\* auth.Access{Resource{Type, Name}, Action}
Access(type, name, action) == [type |-> type, name |-> name, action |-> action]

\* getName(context): the "name" variable of the route.
getName(r) == r.name

\* App.nameRequired
nameRequiredNilRouteFree(r) ==
    r.route \notin {NilRoute, RouteNameBase, RouteNameCatalog}
nameRequired(r) ==
    IF r.route = NilRoute
    THEN TRUE
    ELSE r.route # RouteNameBase /\ r.route # RouteNameCatalog

\* appendAccessRecords
appendAccessRecordsPushOnly(records, method, repo) ==
    CASE method \in {MethodGet, MethodHead} ->
            records \o <<Access("repository", repo, "pull")>>
      [] method \in {MethodPost, MethodPut, MethodPatch} ->
            records \o <<Access("repository", repo, "push")>>
      [] method = MethodDelete ->
            records \o <<Access("repository", repo, "delete")>>
      [] OTHER -> records
appendAccessRecords(records, method, repo) ==
    CASE method \in {MethodGet, MethodHead} ->
            records \o <<Access("repository", repo, "pull")>>
      [] method \in {MethodPost, MethodPut, MethodPatch} ->
            records \o <<Access("repository", repo, "pull"),
                         Access("repository", repo, "push")>>
      [] method = MethodDelete ->
            records \o <<Access("repository", repo, "delete")>>
      [] OTHER -> records

\* appendCatalogAccessRecord (called only with a current route)
appendCatalogAccessRecordAlways(accessRecords, r) ==
    accessRecords \o <<Access("registry", "catalog", "*")>>
appendCatalogAccessRecord(accessRecords, r) ==
    IF r.route = RouteNameCatalog
    THEN accessRecords \o <<Access("registry", "catalog", "*")>>
    ELSE accessRecords

\* The access records App.authorized assembles for a request it submits.
fromRecordsNone(records, r) == records
fromRecords(records, r) ==
    IF r.from # ""
    THEN appendAccessRecords(records, MethodGet, r.from)
    ELSE records
accessRecordsOf(r) ==
    IF getName(r) # ""
    THEN fromRecords(appendAccessRecords(<<>>, r.method, getName(r)), r)
    ELSE appendCatalogAccessRecord(<<>>, r)

(***************************************************************************)
(* The response writer and errcode.ServeJSON.                              *)
(***************************************************************************)
APIVersionHeader == "Docker-Distribution-API-Version: registry/2.0"
ConfigHeaders == {"X-Content-Type-Options: nosniff"}

\* A fresh http.ResponseWriter: no header set, no status written (0), the
\* headers that went out with the status line, the bodies written so far.
NewResponse == [headers |-> {}, status |-> 0, sent |-> {}, body |-> <<>>]

\* w.WriteHeader(code): the first call sends the status line with the headers
\* set so far; a later call changes nothing.
WriteHeader(w, code) ==
    IF w.status = 0
    THEN [w EXCEPT !.status = code, !.sent = w.headers]
    ELSE w

\* A body that is not an error envelope.
Body(text) == [text |-> text]

\* w.Write(b): an implicit WriteHeader(200) when no status was written.
Write(w, b) ==
    LET w1 == WriteHeader(w, 200)
    IN  [w1 EXCEPT !.body = Append(w1.body, b)]

\* The errors that carry an error code (errcode.ErrorCoder), with the HTTP
\* status of their descriptor; every other element of context.Errors is a
\* plain Go error.
ErrorCodeUnauthorized == "UNAUTHORIZED"
ErrorCodeNameUnknown == "NAME_UNKNOWN"
ErrorCodeNameInvalid == "NAME_INVALID"
ErrorCodeUnknown == "UNKNOWN"
ErrorCoders == {ErrorCodeUnauthorized, ErrorCodeNameUnknown, ErrorCodeNameInvalid,
                ErrorCodeUnknown, "UNSUPPORTED", "BLOB_UNKNOWN"}
HTTPStatusCode(code) ==
    CASE code = ErrorCodeUnauthorized -> 401
      [] code = ErrorCodeNameUnknown -> 404
      [] code = ErrorCodeNameInvalid -> 400
      [] code = "UNSUPPORTED" -> 405
      [] code = "BLOB_UNKNOWN" -> 404
      [] OTHER -> 500

\* The JSON envelope of a list of errors: the code of each, a plain error
\* being marshalled as UNKNOWN; detail is the detail of the first.
Envelope(errs, detail) ==
    [errors |-> [i \in 1..Len(errs) |->
                    IF errs[i] \in ErrorCoders THEN errs[i] ELSE ErrorCodeUnknown],
     detail |-> detail]

\* errcode.ServeJSON(w, errs): the status is that of the first error when it
\* carries a code, 500 otherwise.
ServeJSON(w, errs, detail) ==
    LET w1 == [w EXCEPT !.headers = @ \cup {"Content-Type: application/json"}]
        code == IF Len(errs) >= 1 /\ errs[1] \in ErrorCoders
                THEN HTTPStatusCode(errs[1])
                ELSE 500
    IN  Write(WriteHeader(w1, code), Envelope(errs, detail))

NoDetail == <<>>

\* auth.Challenge.SetHeaders(r, w)
WWWAuthenticate == "WWW-Authenticate"
SetHeaders(w) == [w EXCEPT !.headers = @ \cup {WWWAuthenticate}]

(***************************************************************************)
(* App.authorized.                                                         *)
(***************************************************************************)
\* What accessController.Authorized answers: a grant, an auth.Challenge, any
\* other error, or neither a grant nor an error.
ACOutcomes == {"grant", "challenge", "error", "nilgrant"}

\* Whether App.authorized consults the access controller for r.
submits(r) == getName(r) # "" \/ ~nameRequired(r)

\* What App.authorized returns once the access controller answered.
authorizedReturnsNilGrantOK(outcome) ==
    IF outcome \in {"challenge", "error"} THEN "err" ELSE "nil"
authorizedReturns(outcome) ==
    CASE outcome \in {"challenge", "error"} -> "err"
      [] outcome = "nilgrant" -> "err"
      [] OTHER -> "nil"

\* What App.authorized writes to the response once the access controller answered.
authorizedWritesJSONAlways(w, outcome, accessRecords) ==
    IF outcome \in {"challenge", "error"}
    THEN ServeJSON(SetHeaders(w), <<ErrorCodeUnauthorized>>, accessRecords)
    ELSE w
authorizedWrites(w, outcome, accessRecords) ==
    CASE outcome = "challenge" ->
            ServeJSON(SetHeaders(w), <<ErrorCodeUnauthorized>>, accessRecords)
      [] outcome = "error" -> WriteHeader(w, 400)
      [] OTHER -> w

(***************************************************************************)
(* The decorators of the configuration's middleware section.               *)
(***************************************************************************)
\* An entry of a middleware list: its name, and whether its constructor
\* (registrymiddleware.Get, repositorymiddleware.Get, storagemiddleware.Get)
\* fails.
Middleware(name, fails) == [name |-> name, fails |-> fails]
MiddlewareSamples == {Middleware("a", FALSE), Middleware("b", FALSE),
                      Middleware("bad", TRUE)}
MiddlewareLists ==
    UNION {[1..n -> MiddlewareSamples] : n \in 0..MaxMiddlewares}

\* What an apply function returns: the decorated value (the names of the
\* decorators around the base, innermost first; <<>> is nil) and the error.
Applied(value, err) == [value |-> value, err |-> err]

\* applyRegistryMiddleware: each middleware wraps the registry built so far.
RECURSIVE applyRegistryMiddleware(_, _)
applyRegistryMiddleware(base, middlewares) ==
    IF Len(middlewares) = 0 THEN Applied(base, "nil")
    ELSE IF Head(middlewares).fails
    THEN Applied(<<>>, Head(middlewares).name)
    ELSE applyRegistryMiddleware(Append(base, Head(middlewares).name),
                                 Tail(middlewares))

\* applyRepoMiddleware: each middleware wraps the repository built so far.
RECURSIVE applyRepoMiddleware(_, _)
applyRepoMiddleware(base, middlewares) ==
    IF Len(middlewares) = 0 THEN Applied(base, "nil")
    ELSE IF Head(middlewares).fails
    THEN Applied(<<>>, Head(middlewares).name)
    ELSE applyRepoMiddleware(Append(base, Head(middlewares).name),
                             Tail(middlewares))

\* applyStorageMiddleware: each middleware wraps the driver built so far.
RECURSIVE applyStorageMiddleware(_, _)
applyStorageMiddlewareKeepBase(base, middlewares) ==
    IF \E i \in 1..Len(middlewares) : middlewares[i].fails
    THEN Applied(base, "failed")
    ELSE Applied(base \o [i \in 1..Len(middlewares) |-> middlewares[i].name], "nil")
applyStorageMiddleware(base, middlewares) ==
    IF Len(middlewares) = 0 THEN Applied(base, "nil")
    ELSE IF Head(middlewares).fails
    THEN Applied(<<>>, Head(middlewares).name)
    ELSE applyStorageMiddleware(Append(base, Head(middlewares).name),
                                Tail(middlewares))

\* The repository middleware lists the request path is checked with.
RepoMiddlewareConfigs ==
    {<<>>,
     <<Middleware("a", FALSE), Middleware("b", FALSE)>>,
     <<Middleware("a", FALSE), Middleware("bad", TRUE)>>}

(***************************************************************************)
(* The request path: one request at a time goes through App.ServeHTTP and  *)
(* the handler App.dispatcher built for its route (requests share nothing  *)
(* but the application's configuration).                                   *)
(***************************************************************************)
InitRequest ==
    /\ accessController \in BOOLEAN
    /\ req = NoReq
    /\ rpc = "idle"
    /\ resp = NewResponse
    /\ ctxUser = FALSE
    /\ ctxErrors = <<>>
    /\ acCalled = FALSE
    /\ acRecords = <<>>
    /\ acResult = "none"
    /\ authErr = "none"
    /\ log = <<>>
    /\ repoMiddleware \in RepoMiddlewareConfigs
    /\ repoErr = "none"
    /\ ctxRepository = <<>>

\* A request arrives, with a fresh response writer.
Receive ==
    /\ rpc = "idle"
    /\ \E r \in Requests :
        /\ req' = r
        /\ rpc' = IF r.entry = "ServeHTTP" THEN "ServeHTTP" ELSE "dispatcher"
    /\ resp' = NewResponse
    /\ ctxUser' = FALSE
    /\ ctxErrors' = <<>>
    /\ acCalled' = FALSE
    /\ acRecords' = <<>>
    /\ acResult' = "none"
    /\ authErr' = "none"
    /\ log' = <<>>
    /\ repoErr' = "none"
    /\ ctxRepository' = <<>>
    /\ UNCHANGED <<accessController, repoMiddleware, purgerVars, fnVars, appVars>>

\* The headers App.ServeHTTP sets before it routes the request.
ServeHTTPHeadersNone(h) == h
ServeHTTPHeaders(h) == h \cup {APIVersionHeader}

\* App.ServeHTTP: sets the API version header, then routes; the router answers
\* a request that matches no route with 404.
ServeHTTP ==
    /\ rpc = "ServeHTTP"
    /\ LET w == [resp EXCEPT !.headers = ServeHTTPHeaders(@)]
       IN  IF req.matched
           THEN /\ resp' = w
                /\ rpc' = "dispatcher"
           ELSE /\ resp' = Write(WriteHeader(w, 404), Body("404 page not found"))
                /\ rpc' = "done"
    /\ log' = Append(log, "ServeHTTP")
    /\ UNCHANGED <<repoErr, ctxRepository>>
    /\ UNCHANGED <<accessController, repoMiddleware, req, ctxUser, ctxErrors, acCalled, acRecords,
                   acResult, authErr, purgerVars, fnVars, appVars>>

\* App.dispatcher, up to the call of App.authorized: the configured headers
\* are added and the request context is built.
Dispatcher ==
    /\ rpc = "dispatcher"
    /\ resp' = [resp EXCEPT !.headers = @ \cup ConfigHeaders]
    /\ ctxErrors' = <<>>
    /\ ctxUser' = FALSE
    /\ rpc' = "authorized"
    /\ log' = Append(log, "dispatcher")
    /\ UNCHANGED <<repoErr, ctxRepository>>
    /\ UNCHANGED <<accessController, repoMiddleware, req, acCalled, acRecords, acResult, authErr,
                   purgerVars, fnVars, appVars>>

\* App.authorized, and the dispatcher's return when it fails.
Authorized ==
    /\ rpc = "authorized"
    /\ IF ~accessController
       THEN \* access controller is not enabled
            /\ authErr' = "nil"
            /\ UNCHANGED <<resp, ctxUser, acCalled, acRecords, acResult>>
       ELSE IF ~submits(req)
       THEN \* forbidden: no repository name
            /\ resp' = ServeJSON(resp, <<ErrorCodeUnauthorized>>, NoDetail)
            /\ authErr' = "err"
            /\ UNCHANGED <<ctxUser, acCalled, acRecords, acResult>>
       ELSE \E outcome \in ACOutcomes :
            LET accessRecords == accessRecordsOf(req)
            IN  /\ acCalled' = TRUE
                /\ acRecords' = accessRecords
                /\ acResult' = outcome
                /\ resp' = authorizedWrites(resp, outcome, accessRecords)
                /\ authErr' = authorizedReturns(outcome)
                /\ ctxUser' = (outcome = "grant")
    /\ rpc' = IF authErr' = "err" THEN "deferred" ELSE "nameRequired"
    /\ log' = Append(log, "authorized")
    /\ UNCHANGED <<repoErr, ctxRepository>>
    /\ UNCHANGED <<accessController, repoMiddleware, req, ctxErrors, purgerVars, fnVars, appVars>>

\* reference.WithName: the empty name and a name longer than 255 characters
\* are rejected.
WithNameOK(name) == name \in ValidNames

\* The dispatcher's check of the repository name.
NameRequired ==
    /\ rpc = "nameRequired"
    /\ IF nameRequired(req)
       THEN IF WithNameOK(getName(req))
            THEN /\ rpc' = "Repository"
                 /\ UNCHANGED <<ctxErrors, resp>>
            ELSE /\ ctxErrors' = Append(ctxErrors, "ErrRepositoryNameInvalid")
                 /\ resp' = ServeJSON(resp, ctxErrors', NoDetail)
                 /\ rpc' = "deferred"
       ELSE /\ rpc' = "handler"
            /\ UNCHANGED <<ctxErrors, resp>>
    /\ log' = IF nameRequired(req) THEN Append(log, "WithName") ELSE log
    /\ UNCHANGED <<repoErr, ctxRepository>>
    /\ UNCHANGED <<accessController, repoMiddleware, req, ctxUser, acCalled, acRecords, acResult,
                   authErr, purgerVars, fnVars, appVars>>

\* What app.registry.Repository answers: the repository, or an error of one of
\* the kinds the dispatcher tells apart, or any other error.
RepositoryOutcomes == {"ok", "ErrRepositoryUnknown", "ErrRepositoryNameInvalid",
                       "errcode.Error", "error"}

\* The dispatcher's switch on the error of app.registry.Repository.
repositoryErrors(errors, outcome) ==
    CASE outcome = "ErrRepositoryUnknown" -> Append(errors, ErrorCodeNameUnknown)
      [] outcome = "ErrRepositoryNameInvalid" -> Append(errors, ErrorCodeNameInvalid)
      [] outcome = "errcode.Error" -> Append(errors, "UNSUPPORTED")
      [] OTHER -> errors

\* The dispatcher resolves the repository.
Repository ==
    /\ rpc = "Repository"
    /\ \E outcome \in RepositoryOutcomes :
        /\ repoErr' = IF outcome = "ok" THEN "nil" ELSE outcome
        /\ IF outcome = "ok"
           THEN /\ rpc' = "applyRepoMiddleware"
                /\ UNCHANGED <<ctxErrors, resp>>
           ELSE /\ ctxErrors' = repositoryErrors(ctxErrors, outcome)
                /\ resp' = ServeJSON(resp, ctxErrors', NoDetail)
                /\ rpc' = "deferred"
    /\ log' = Append(log, "Repository")
    /\ UNCHANGED ctxRepository
    /\ UNCHANGED <<accessController, repoMiddleware, req, ctxUser, acCalled, acRecords, acResult,
                   authErr, purgerVars, fnVars, appVars>>

\* The dispatcher decorates the repository with the configured middlewares.
ApplyRepoMiddleware ==
    /\ rpc = "applyRepoMiddleware"
    /\ LET r == applyRepoMiddleware(<<"repository">>, repoMiddleware)
       IN  /\ ctxRepository' = r.value
           /\ IF r.err = "nil"
              THEN /\ rpc' = "handler"
                   /\ UNCHANGED <<ctxErrors, resp>>
              ELSE /\ ctxErrors' = Append(ctxErrors, ErrorCodeUnknown)
                   /\ resp' = ServeJSON(resp, ctxErrors', NoDetail)
                   /\ rpc' = "deferred"
    /\ log' = Append(log, "applyRepoMiddleware")
    /\ UNCHANGED repoErr
    /\ UNCHANGED <<accessController, repoMiddleware, req, ctxUser, acCalled, acRecords, acResult,
                   authErr, purgerVars, fnVars, appVars>>

\* dispatch(context, r).ServeHTTP(w, r): the route's handler either answers
\* itself or leaves an error in context.Errors for the dispatcher to serve.
Handler ==
    /\ rpc = "handler"
    /\ \/ /\ resp' = Write(resp, Body("payload"))
          /\ UNCHANGED ctxErrors
       \/ /\ ctxErrors' = Append(ctxErrors, "BLOB_UNKNOWN")
          /\ UNCHANGED resp
    /\ rpc' = "deferred"
    /\ log' = Append(log, "handler")
    /\ UNCHANGED <<repoErr, ctxRepository>>
    /\ UNCHANGED <<accessController, repoMiddleware, req, ctxUser, acCalled, acRecords, acResult,
                   authErr, purgerVars, fnVars, appVars>>

\* The dispatcher's deferred function: serves the errors of the context.
Deferred ==
    /\ rpc = "deferred"
    /\ resp' = IF Len(ctxErrors) > 0
               THEN ServeJSON(resp, ctxErrors, NoDetail)
               ELSE resp
    /\ rpc' = "done"
    /\ log' = Append(log, "deferred")
    /\ UNCHANGED <<repoErr, ctxRepository>>
    /\ UNCHANGED <<accessController, repoMiddleware, req, ctxUser, ctxErrors, acCalled, acRecords,
                   acResult, authErr, purgerVars, fnVars, appVars>>

\* The response is complete; the server takes the next request.
Finish ==
    /\ rpc = "done"
    /\ rpc' = "idle"
    /\ req' = NoReq
    /\ resp' = NewResponse
    /\ ctxUser' = FALSE
    /\ ctxErrors' = <<>>
    /\ acCalled' = FALSE
    /\ acRecords' = <<>>
    /\ acResult' = "none"
    /\ authErr' = "none"
    /\ log' = <<>>
    /\ repoErr' = "none"
    /\ ctxRepository' = <<>>
    /\ UNCHANGED <<accessController, repoMiddleware, purgerVars, fnVars, appVars>>

(***************************************************************************)
(* The upload purger.                                                      *)
(***************************************************************************)
\* time.Minute, in seconds
Minute == 60

\* A value of the configuration map (map[interface{}]interface{}) is written
\* "bool:..." or "string:..." after its dynamic type; Absent is a missing key.
Absent == "absent"
PurgeConfig(enabled, age, interval, dryrun) ==
    [enabled |-> enabled, age |-> age, interval |-> interval, dryrun |-> dryrun]

\* uploadPurgeDefaultConfig
uploadPurgeDefaultConfig ==
    PurgeConfig("bool:true", "string:168h", "string:24h", "bool:false")

\* An uploadpurging value that is not a map.
NotAMap == PurgeConfig("notamap", Absent, Absent, Absent)

\* The uploadpurging configurations considered: none, not a map, and maps that
\* differ from two valid ones in one key.
ShortConfig == PurgeConfig("bool:true", "string:1h", "string:12h", "bool:true")
NoConfig == PurgeConfig(Absent, Absent, Absent, Absent)
PurgeConfigs ==
    {NoConfig, NotAMap, uploadPurgeDefaultConfig, ShortConfig}
    \cup {[uploadPurgeDefaultConfig EXCEPT !.enabled = e] :
            e \in {"bool:false", Absent, "string:false"}}
    \cup {[ShortConfig EXCEPT !.enabled = "bool:false"]}
    \cup {[ShortConfig EXCEPT !.age = a] :
            a \in {Absent, "bool:true", "string:bogus", "string:168h"}}
    \cup {[ShortConfig EXCEPT !.interval = i] :
            i \in {Absent, "bool:true", "string:bogus", "string:24h"}}
    \cup {[ShortConfig EXCEPT !.dryrun = d] :
            d \in {Absent, "string:false", "bool:false"}}
    \cup {PurgeConfig("bool:false", Absent, "string:bogus", "string:false")}

\* time.ParseDuration on the strings above, in seconds; -1 is an error.
ParseDuration(s) ==
    CASE s = "string:168h" -> 168 * 60 * Minute
      [] s = "string:24h" -> 24 * 60 * Minute
      [] s = "string:12h" -> 12 * 60 * Minute
      [] s = "string:1h" -> 60 * Minute
      [] OTHER -> -1

IsString(v) == v \in {"string:168h", "string:24h", "string:12h", "string:1h",
                      "string:bogus", "string:false"}
IsBool(v) == v \in {"bool:true", "bool:false"}

\* NewApp: the purge configuration handed to startUploadPurger; NewApp panics
\* when the uploadpurging key holds no map.
purgeConfigOf(maintenance) ==
    IF maintenance = NoConfig THEN uploadPurgeDefaultConfig ELSE maintenance

\* startUploadPurger: whether it returns at once.
purgeDisabled(purgeConfig) == purgeConfig.enabled = "bool:false"

\* startUploadPurger: whether the configuration makes it panic.
badPurgeUploadConfig(purgeConfig) ==
    \/ ~IsString(purgeConfig.age) \/ ParseDuration(purgeConfig.age) < 0
    \/ ~IsString(purgeConfig.interval) \/ ParseDuration(purgeConfig.interval) < 0
    \/ ~IsBool(purgeConfig.dryrun)

\* A draw of rand.Int(rand.Reader, MaxInt64), a number below 2^63 - 1, written
\* in three limbs of 21 bits, most significant first.
LimbBase == 2^21
LimbSamples == {0, 1, 59, 60, LimbBase - 2, LimbBase - 1}
MaxInt64 == <<LimbBase - 1, LimbBase - 1, LimbBase - 1>>
Draws == (LimbSamples \X LimbSamples \X LimbSamples) \ {MaxInt64}
FewDraws == {<<0, 0, 0>>, <<0, 0, 59>>, <<LimbBase - 1, LimbBase - 1, LimbBase - 2>>}

\* big.NewInt(30)
FailureInt == <<0, 0, 30>>

\* n % k for a non-negative n in limbs (Go's % on a non-negative int64).
BigMod(n, k) ==
    LET b == LimbBase % k
    IN  ((n[1] % k) * ((b * b) % k) + (n[2] % k) * b + (n[3] % k)) % k

\* jitter := time.Duration(randInt.Int64()%60) * time.Minute
JitterMod61(n) == BigMod(n, 61) * Minute
Jitter(n) == BigMod(n, 60) * Minute

NoSweep == [at |-> -1, olderThan |-> 0, actuallyDelete |-> FALSE,
            sleepArg |-> -1, sleepFrom |-> -1]

InitPurger ==
    /\ storageMaintenance \in PurgeConfigs
    /\ ppc = "NewApp"
    /\ purgeAge = 0
    /\ purgeInterval = 0
    /\ dryRunBool = FALSE
    /\ randInt = [err |-> FALSE, n |-> <<0, 0, 0>>]
    /\ jitter = -1
    /\ wakeAt = -1
    /\ sleepArg = -1
    /\ sleepFrom = -1
    /\ now = 0
    /\ started = -1
    /\ cancelled = FALSE
    /\ lastSweep = NoSweep
    /\ nSweeps = 0

\* NewApp derives the purge configuration and calls startUploadPurger, which
\* returns at once, panics, or starts the purger goroutine.
startUploadPurger ==
    /\ ppc = "NewApp"
    /\ LET purgeConfig == purgeConfigOf(storageMaintenance)
       IN  IF storageMaintenance = NotAMap
           THEN /\ ppc' = "panic"
                /\ UNCHANGED <<purgeAge, purgeInterval, dryRunBool, started>>
           ELSE IF purgeDisabled(purgeConfig)
           THEN /\ ppc' = "disabled"
                /\ UNCHANGED <<purgeAge, purgeInterval, dryRunBool, started>>
           ELSE IF badPurgeUploadConfig(purgeConfig)
           THEN /\ ppc' = "panic"
                /\ UNCHANGED <<purgeAge, purgeInterval, dryRunBool, started>>
           ELSE /\ purgeAge' = ParseDuration(purgeConfig.age)
                /\ purgeInterval' = ParseDuration(purgeConfig.interval)
                /\ dryRunBool' = (purgeConfig.dryrun = "bool:true")
                /\ started' = now
                /\ ppc' = "go"
    /\ UNCHANGED <<storageMaintenance, randInt, jitter, wakeAt, sleepArg, sleepFrom,
                   now, cancelled, lastSweep, nSweeps>>

\* The same step, with the rest of NewApp left out.
StartUploadPurger ==
    /\ startUploadPurger
    /\ UNCHANGED <<reqVars, fnVars, appVars>>

\* The goroutine draws its jitter and sleeps; a failed draw counts as 30.
PurgerJitter(draws) ==
    /\ ppc = "go"
    /\ \E failed \in BOOLEAN : \E d \in draws :
        /\ randInt' = [err |-> failed, n |-> IF failed THEN FailureInt ELSE d]
        /\ jitter' = Jitter(randInt'.n)
    /\ sleepArg' = jitter'
    /\ sleepFrom' = now
    /\ wakeAt' = now + jitter'
    /\ ppc' = "jitter"
    /\ UNCHANGED <<storageMaintenance, purgeAge, purgeInterval, dryRunBool, now,
                   started, cancelled, lastSweep, nSweeps, reqVars, fnVars, appVars>>

\* The instant before which storage.PurgeUploads purges.
olderThan(t) == t - purgeAge

\* The sleep is over: the goroutine calls
\* storage.PurgeUploads(ctx, storageDriver, time.Now().Add(-purgeAgeDuration), !dryRunBool).
PurgeUploads ==
    /\ ppc \in {"jitter", "sleep"}
    /\ now >= wakeAt
    /\ lastSweep' = [at |-> now, olderThan |-> olderThan(now),
                     actuallyDelete |-> ~dryRunBool,
                     sleepArg |-> sleepArg, sleepFrom |-> sleepFrom]
    /\ nSweeps' = nSweeps + 1
    /\ ppc' = "PurgeUploads"
    /\ UNCHANGED <<storageMaintenance, purgeAge, purgeInterval, dryRunBool, randInt,
                   jitter, wakeAt, sleepArg, sleepFrom, now, started, cancelled,
                   reqVars, fnVars, appVars>>

\* The duration of the sleep that follows a sweep.
sleepAfterSweepJitter == jitter
sleepAfterSweep == purgeInterval

\* storage.PurgeUploads returned: time.Sleep(intervalDuration).
SleepInterval ==
    /\ ppc = "PurgeUploads"
    /\ sleepArg' = sleepAfterSweep
    /\ sleepFrom' = now
    /\ wakeAt' = now + sleepArg'
    /\ ppc' = "sleep"
    /\ UNCHANGED <<storageMaintenance, purgeAge, purgeInterval, dryRunBool, randInt,
                   jitter, now, started, cancelled, lastSweep, nSweeps, reqVars, fnVars, appVars>>

\* Time passes. A sleeping goroutine is woken at its deadline or at most
\* MaxLate seconds after it; the goroutine starts at once, and a sweep takes
\* at most one short step.
ShortStep == 20 * Minute
TickSteps == {ShortStep, 12 * 60 * Minute}
Sleeping == ppc \in {"jitter", "sleep"}
Tick ==
    /\ ppc \in {"jitter", "sleep", "PurgeUploads", "disabled"}
    /\ \E step \in TickSteps : \E late \in 0..MaxLate :
        /\ ppc = "PurgeUploads" => step = ShortStep /\ now = lastSweep.at
        /\ now' = IF Sleeping THEN Min(now + step, wakeAt + late) ELSE now + step
        /\ now' > now
        /\ now' <= MaxTime
    /\ UNCHANGED <<storageMaintenance, ppc, purgeAge, purgeInterval, dryRunBool,
                   randInt, jitter, wakeAt, sleepArg, sleepFrom, started, cancelled,
                   lastSweep, nSweeps, reqVars, fnVars, appVars>>

\* The context NewApp was given, which startUploadPurger is passed as ctx, is
\* cancelled (the process shuts down). The goroutine reads it nowhere.
Cancel ==
    /\ ppc \in {"go", "jitter", "sleep", "PurgeUploads", "disabled"}
    /\ ~cancelled
    /\ cancelled' = TRUE
    /\ UNCHANGED <<storageMaintenance, ppc, purgeAge, purgeInterval, dryRunBool,
                   randInt, jitter, wakeAt, sleepArg, sleepFrom, now, started,
                   lastSweep, nSweeps, reqVars, fnVars, appVars>>

(***************************************************************************)
(* appendAccessRecords on its own.                                         *)
(***************************************************************************)
SomeRecords == {Access("repository", n, a) : n \in ValidNames, a \in {"pull", "push", "delete"}}
               \cup {Access("registry", "catalog", "*")}
RECURSIVE SeqsUpTo(_, _)
SeqsUpTo(S, n) ==
    IF n = 0 THEN {<<>>}
    ELSE LET shorter == SeqsUpTo(S, n - 1)
         IN  shorter \cup {Append(q, x) : q \in shorter, x \in S}

NoOut == <<Access("none", "", "")>>
NoArg == [records |-> <<>>, method |-> MethodGet, repo |-> ""]

InitAppend ==
    /\ arg \in [records : SeqsUpTo(SomeRecords, MaxRecords), method : Methods,
                repo : ValidNames]
    /\ out = NoOut

\* records = appendAccessRecords(records, method, repo)
AppendAccessRecords ==
    /\ out = NoOut
    /\ out' = appendAccessRecords(arg.records, arg.method, arg.repo)
    /\ UNCHANGED <<arg, reqVars, purgerVars, appVars>>

(***************************************************************************)
(* Regular expressions (package regexp), as far as NewApp uses them.  A    *)
(* pattern and a URL are sequences of tokens: the letters, ^ $ | ( ) and   *)
(* the group openers (?: and (?i).                                         *)
(***************************************************************************)
Letters == {"a", "A", "b"}

\* fmt.Sprintf("(?:%s)", s)
WrapBare(s) == s
Wrap(s) == <<"(?:">> \o s \o <<")">>

\* strings.Join(list, "|")
RECURSIVE Join(_)
Join(list) ==
    IF Len(list) = 0 THEN <<>>
    ELSE IF Len(list) = 1 THEN list[1]
    ELSE list[1] \o <<"|">> \o Join(Tail(list))

\* The parse tree of a pattern.
Lit(c, ci) == [op |-> "lit", c |-> c, ci |-> ci, subs |-> <<>>]
Bol == [op |-> "bol", c |-> "", ci |-> FALSE, subs |-> <<>>]
Eol == [op |-> "eol", c |-> "", ci |-> FALSE, subs |-> <<>>]
Cat(subs) == [op |-> "cat", c |-> "", ci |-> FALSE, subs |-> subs]
Alt(subs) == [op |-> "alt", c |-> "", ci |-> FALSE, subs |-> subs]
Parsed(ok, node, next, ci) == [ok |-> ok, node |-> node, next |-> next, ci |-> ci]
ParseError == Parsed(FALSE, Cat(<<>>), 0, FALSE)

\* The parser of regexp/syntax: an alternation of concatenations.  ci is the
\* case-insensitive flag; a flag set by (?i) lasts to the end of the group
\* it is set in, across the alternatives that follow it.
RECURSIVE parseAlternation(_, _, _, _)
RECURSIVE parseConcat(_, _, _, _)
parseConcat(toks, i, ci, acc) ==
    IF i > Len(toks) \/ toks[i] \in {"|", ")"}
    THEN Parsed(TRUE, Cat(acc), i, ci)
    ELSE CASE toks[i] = "^" -> parseConcat(toks, i + 1, ci, Append(acc, Bol))
           [] toks[i] = "$" -> parseConcat(toks, i + 1, ci, Append(acc, Eol))
           [] toks[i] = "(?i)" -> parseConcat(toks, i + 1, TRUE, acc)
           [] toks[i] = "(?:" ->
                LET g == parseAlternation(toks, i + 1, ci, <<>>)
                IN  IF g.ok /\ g.next <= Len(toks) /\ toks[g.next] = ")"
                    THEN parseConcat(toks, g.next + 1, ci, Append(acc, g.node))
                    ELSE ParseError
           [] OTHER -> parseConcat(toks, i + 1, ci, Append(acc, Lit(toks[i], ci)))
parseAlternation(toks, i, ci, acc) ==
    LET c == parseConcat(toks, i, ci, <<>>)
    IN  IF ~c.ok THEN ParseError
        ELSE IF c.next <= Len(toks) /\ toks[c.next] = "|"
        THEN parseAlternation(toks, c.next + 1, c.ci, Append(acc, c.node))
        ELSE Parsed(TRUE, Alt(Append(acc, c.node)), c.next, c.ci)

\* regexp.Compile(s): the pattern must be consumed whole.
Compile(s) ==
    LET r == parseAlternation(s, 1, FALSE, <<>>)
    IN  IF r.ok /\ r.next = Len(s) + 1 THEN r ELSE ParseError

\* Case folding of a letter.
Fold(c) == IF c = "A" THEN "a" ELSE c

\* The positions of u a match of node can end at, when it starts at a
\* position of from (positions are 1..Len(u)+1).
RECURSIVE ends(_, _, _)
RECURSIVE endsConcat(_, _, _, _)
endsConcat(subs, k, u, from) ==
    IF k > Len(subs) THEN from
    ELSE endsConcat(subs, k + 1, u, ends(subs[k], u, from))
ends(node, u, from) ==
    CASE node.op = "lit" ->
            {p + 1 : p \in {q \in from : /\ q <= Len(u)
                                         /\ IF node.ci
                                            THEN Fold(u[q]) = Fold(node.c)
                                            ELSE u[q] = node.c}}
      [] node.op = "bol" -> from \cap {1}
      [] node.op = "eol" -> from \cap {Len(u) + 1}
      [] node.op = "cat" -> endsConcat(node.subs, 1, u, from)
      [] OTHER -> UNION {ends(node.subs[k], u, from) : k \in 1..Len(node.subs)}

\* Regexp.MatchString(u) of the regexp compiled from s: some substring of u
\* matches.
MatchString(s, u) == ends(Compile(s).node, u, 1..(Len(u) + 1)) # {}

\* The manifest URLs the regexps are tried on (a URL is never empty).
URLs == UNION {[1..n -> Letters] : n \in 1..MaxURLLen}

\* The patterns of the configuration's allow and deny lists; the last two do
\* not compile.
PatternSamples ==
    {<<"a", "b">>, <<"^", "b">>, <<"(?i)", "a", "$">>, <<"A", "|", "b", "b">>,
     <<"(?:", "a">>, <<"b", ")">>}
PatternLists == UNION {[1..n -> PatternSamples] : n \in 0..MaxPatterns}

(***************************************************************************)
(* NewApp.                                                                 *)
(***************************************************************************)
\* const randomSecretSize
randomSecretSize == 32

\* The configuration, as far as NewApp reads it.  Values of the untyped
\* parameter maps carry their type ("bool:true"); Absent is a missing key.
\* A secret is its bytes.
BaseConfig ==
    [proxyRemoteURL |-> "", httpSecret |-> <<>>, httpHost |-> "",
     readonly |-> Absent,
     hasDelete |-> FALSE, deleteEnabled |-> Absent,
     tagConcurrency |-> Absent,
     hasRedirect |-> FALSE, redirectDisable |-> Absent,
     validationEnabled |-> FALSE, validationDisabled |-> FALSE,
     allow |-> <<>>, deny |-> <<>>,
     platforms |-> "", platformList |-> <<>>,
     hasCache |-> FALSE, blobdescriptor |-> Absent, layerinfo |-> Absent,
     blobdescriptorsize |-> Absent,
     redisAddrs |-> 0, redisTLS |-> FALSE, redisClientCAs |-> FALSE,
     storageMiddleware |-> <<>>, registryMiddleware |-> <<>>,
     authType |-> "",
     registered |-> <<>>]

\* A registry option (storage.RegistryOption) and its argument.
Option(name, value) == [name |-> name, arg |-> value]
DisableDigestResumption == Option("DisableDigestResumption", <<>>)
EnableDelete == Option("EnableDelete", <<>>)
EnableRedirect == Option("EnableRedirect", <<>>)
EnableValidateImageIndexImagesExist == Option("EnableValidateImageIndexImagesExist", <<>>)
TagLookupConcurrencyLimit(limit) == Option("TagLookupConcurrencyLimit", <<limit>>)
ManifestURLsAllowRegexp(re) == Option("ManifestURLsAllowRegexp", re)
ManifestURLsDenyRegexp(re) == Option("ManifestURLsDenyRegexp", re)
AddValidateImageIndexImagesExistPlatform(platform) ==
    Option("AddValidateImageIndexImagesExistPlatform", platform)
BlobDescriptorCacheProvider(kind) == Option("BlobDescriptorCacheProvider", <<kind>>)

\* The options a section of NewApp leaves, or the panic it ends with.
Result(opts, panic) == [options |-> opts, panic |-> panic]

\* What configureSecret leaves in http.secret, given what rand.Read filled.
configureSecret(secret, randomBytes) ==
    IF Len(secret) = 0 THEN randomBytes ELSE secret

\* Whether NewApp calls configureSecret.
callsConfigureSecretAlways(cache) == TRUE
callsConfigureSecret(cache) == ~cache

\* What rand.Read may fill the secret with.
RandomBytes == {[i \in 1..randomSecretSize |-> b] : b \in {0, 255}}

\* The option of a pull-through cache.
digestOptionsNever(opts, cache) == opts
digestOptions(opts, cache) ==
    IF cache THEN Append(opts, DisableDigestResumption) ELSE opts

\* The option of storage.delete.
deleteOptionsUnlessFalse(opts, cfg) ==
    IF cfg.hasDelete /\ cfg.deleteEnabled \notin {Absent, "bool:false"}
    THEN Append(opts, EnableDelete)
    ELSE opts
deleteOptions(opts, cfg) ==
    IF cfg.hasDelete /\ cfg.deleteEnabled = "bool:true"
    THEN Append(opts, EnableDelete)
    ELSE opts

\* The option of storage.tag.concurrencylimit.
tagOptions(opts, cfg) ==
    CASE cfg.tagConcurrency = Absent -> Result(opts, "")
      [] cfg.tagConcurrency = "int:0" ->
            Result(Append(opts, TagLookupConcurrencyLimit("0")), "")
      [] cfg.tagConcurrency = "int:5" ->
            Result(Append(opts, TagLookupConcurrencyLimit("5")), "")
      [] cfg.tagConcurrency = "int:-1" ->
            Result(opts, "tag lookup concurrency limit should be a non-negative integer value")
      [] OTHER ->
            Result(opts, "tag lookup concurrency limit config key must have a integer value")

\* The option of storage.redirect.
redirectOptions(opts, cfg) ==
    IF cfg.hasRedirect /\ cfg.redirectDisable \notin {"bool:true", "bool:false"}
    THEN Result(opts, "invalid type for redirect config")
    ELSE IF cfg.hasRedirect /\ cfg.redirectDisable = "bool:true"
    THEN Result(opts, "")
    ELSE Result(Append(opts, EnableRedirect), "")

\* config.Validation.Enabled after NewApp looked at validation.disabled.
validationEnabledAsGiven(cfg) == cfg.validationEnabled
validationEnabled(cfg) ==
    IF ~cfg.validationEnabled THEN ~cfg.validationDisabled ELSE TRUE

\* The first pattern of a list that does not compile (0: they all do).
firstInvalid(list) ==
    IF \E i \in 1..Len(list) : ~Compile(list[i]).ok
    THEN CHOOSE i \in 1..Len(list) :
            /\ ~Compile(list[i]).ok
            /\ \A j \in 1..(i - 1) : Compile(list[j]).ok
    ELSE 0

\* What the validation loop leaves in a list: every pattern before the first
\* invalid one is wrapped in place.
wrapped(list) ==
    [i \in 1..Len(list) |->
        IF firstInvalid(list) = 0 \/ i < firstInvalid(list)
        THEN Wrap(list[i])
        ELSE list[i]]

\* The regexp source NewApp compiles for an empty allow and deny list.
AllowNothingAll == <<>>
AllowNothing == <<"^", "$">>

\* The options of validation.manifests.urls.
urlOptions(opts, allow, deny) ==
    IF Len(allow) = 0 /\ Len(deny) = 0
    THEN Result(Append(opts, ManifestURLsAllowRegexp(AllowNothing)), "")
    ELSE LET withAllow ==
                 IF Len(allow) > 0
                 THEN Append(opts, ManifestURLsAllowRegexp(Join(wrapped(allow))))
                 ELSE opts
         IN  IF firstInvalid(allow) # 0
             THEN Result(opts, "validation.manifests.urls.allow")
             ELSE IF firstInvalid(deny) # 0
             THEN Result(withAllow, "validation.manifests.urls.deny")
             ELSE IF Len(deny) > 0
             THEN Result(Append(withAllow, ManifestURLsDenyRegexp(Join(wrapped(deny)))), "")
             ELSE Result(withAllow, "")

\* The options of validation.manifests.indexes: the switch on platforms.  The
\* case "list" falls through into the case "none", which only logs.
indexOptionsFallToDefault(opts, platforms, platformList) ==
    CASE platforms = "list" ->
            Append(Append(opts, EnableValidateImageIndexImagesExist)
                     \o [i \in 1..Len(platformList) |->
                            AddValidateImageIndexImagesExistPlatform(platformList[i])],
                   EnableValidateImageIndexImagesExist)
      [] platforms = "none" -> opts
      [] OTHER -> Append(opts, EnableValidateImageIndexImagesExist)
indexOptions(opts, platforms, platformList) ==
    CASE platforms = "list" ->
            Append(opts, EnableValidateImageIndexImagesExist)
              \o [i \in 1..Len(platformList) |->
                    AddValidateImageIndexImagesExistPlatform(platformList[i])]
      [] platforms = "none" -> opts
      [] OTHER -> Append(opts, EnableValidateImageIndexImagesExist)

\* The value the cache switch looks at: blobdescriptor, or the legacy
\* layerinfo when that key is missing.
cacheTypeNoLegacy(cfg) == cfg.blobdescriptor
cacheType(cfg) ==
    IF cfg.blobdescriptor # Absent THEN cfg.blobdescriptor ELSE cfg.layerinfo

\* strconv.Atoi(fmt.Sprint(configuredSize)) succeeds.
AtoiOK(v) == v \in {"int:100", "string:100"}

IdleApp ==
    /\ given = BaseConfig
    /\ config = BaseConfig
    /\ napc = "NewApp"
    /\ panicMsg = ""
    /\ isCache = FALSE
    /\ readOnly = FALSE
    /\ driver = <<>>
    /\ purgerDriver = <<>>
    /\ redis = FALSE
    /\ options = <<>>
    /\ registry = <<>>
    /\ registryOptions = <<>>
    /\ nNewRegistry = 0
    /\ warnings = {}

\* The request path's variables but app.accessController.
reqRest == <<req, rpc, resp, ctxUser, ctxErrors, acCalled, acRecords, acResult,
             authErr, log, repoMiddleware, repoErr, ctxRepository>>

\* NewApp panics.
Panic(msg) ==
    /\ napc' = "panic"
    /\ panicMsg' = msg

\* NewApp, lines 95-129: the App is allocated and the storage driver created.
NewAppCreate ==
    /\ napc = "NewApp"
    /\ isCache' = (config.proxyRemoteURL # "")
    /\ \E ok \in BOOLEAN :
        IF ok
        THEN /\ driver' = <<"driver">>
             /\ napc' = "startUploadPurger"
             /\ UNCHANGED panicMsg
        ELSE /\ Panic("factory.Create")
             /\ UNCHANGED driver
    /\ UNCHANGED <<config, readOnly, purgerDriver, redis, options, registry,
                   registryOptions, nNewRegistry, warnings, reqVars, purgerVars,
                   fnVars, given>>

\* NewApp, lines 131-153: the maintenance section is read and the upload
\* purger started on app.driver.
NewAppStartUploadPurger ==
    /\ napc = "startUploadPurger"
    /\ IF storageMaintenance # NotAMap
          /\ config.readonly \notin {Absent, "bool:true", "bool:false"}
       THEN /\ Panic("readonly")
            /\ UNCHANGED <<readOnly, purgerDriver, purgerVars>>
       ELSE /\ startUploadPurger
            /\ readOnly' = (storageMaintenance # NotAMap /\ config.readonly = "bool:true")
            /\ IF ppc' = "panic"
               THEN /\ Panic("uploadpurging")
                    /\ UNCHANGED purgerDriver
               ELSE /\ napc' = "applyStorageMiddleware"
                    /\ purgerDriver' = driver
                    /\ UNCHANGED panicMsg
    /\ UNCHANGED <<config, isCache, driver, redis, options, registry,
                   registryOptions, nNewRegistry, warnings, reqVars, fnVars, given>>

\* NewApp, lines 155-158.
NewAppStorageMiddleware ==
    /\ napc = "applyStorageMiddleware"
    /\ LET r == applyStorageMiddleware(driver, config.storageMiddleware)
       IN  /\ driver' = r.value
           /\ IF r.err = "nil"
              THEN /\ napc' = "configure"
                   /\ UNCHANGED panicMsg
              ELSE Panic("applyStorageMiddleware")
    /\ UNCHANGED <<config, isCache, readOnly, purgerDriver, redis, options,
                   registry, registryOptions, nNewRegistry, warnings, reqVars,
                   purgerVars, fnVars, given>>

\* What configureRedis leaves in app.redis: nothing without addresses; with
\* a TLS certificate or key it panics when the key pair does not load, and
\* returns early, with no client, when a client CA cannot be read or added.
configureRedis(cfg, keyPairOK, caOK) ==
    IF cfg.redisAddrs = 0 THEN "nil"
    ELSE IF cfg.redisTLS /\ ~keyPairOK THEN "panic"
    ELSE IF cfg.redisTLS /\ cfg.redisClientCAs /\ ~caOK THEN "nil"
    ELSE "client"

\* NewApp, lines 160-177: the HTTP secret, redis, the registered options and
\* the http host.
NewAppConfigure ==
    /\ napc = "configure"
    /\ \E failed \in BOOLEAN : \E randomBytes \in RandomBytes :
       \E keyPairOK \in BOOLEAN : \E caOK \in BOOLEAN :
        LET generates == callsConfigureSecret(isCache) /\ Len(config.httpSecret) = 0
            client == configureRedis(config, keyPairOK, caOK)
        IN  IF generates /\ failed
            THEN /\ Panic("could not generate random bytes for HTTP secret")
                 /\ UNCHANGED <<config, redis, options, warnings>>
            ELSE /\ config' =
                      IF callsConfigureSecret(isCache)
                      THEN [config EXCEPT !.httpSecret = configureSecret(@, randomBytes)]
                      ELSE config
                 /\ warnings' =
                      IF generates
                      THEN warnings \cup {"No HTTP secret provided"}
                      ELSE warnings
                 /\ IF client = "panic"
                    THEN /\ Panic("tls.LoadX509KeyPair")
                         /\ UNCHANGED <<redis, options>>
                    ELSE /\ redis' = (client = "client")
                         /\ options' = config.registered
                         /\ IF config.httpHost = "%zz"
                            THEN Panic("could not parse http host parameter")
                            ELSE /\ napc' = "options"
                                 /\ UNCHANGED panicMsg
    /\ UNCHANGED <<isCache, readOnly, driver, purgerDriver, registry,
                   registryOptions, nNewRegistry, reqVars, purgerVars, fnVars, given>>

\* NewApp, lines 179-223: the options of the proxy, delete, tag and redirect
\* sections.
NewAppOptions ==
    /\ napc = "options"
    /\ LET o1 == deleteOptions(digestOptions(options, isCache), config)
           o2 == tagOptions(o1, config)
           o3 == redirectOptions(o2.options, config)
       IN  IF o2.panic # ""
           THEN /\ options' = o2.options
                /\ Panic(o2.panic)
                /\ UNCHANGED warnings
           ELSE /\ options' = o3.options
                /\ IF o3.panic # ""
                   THEN /\ Panic(o3.panic)
                        /\ UNCHANGED warnings
                   ELSE /\ napc' = "validation"
                        /\ UNCHANGED panicMsg
                        /\ warnings' =
                             IF config.hasRedirect /\ config.redirectDisable = "bool:true"
                             THEN warnings \cup {"backend redirection disabled"}
                             ELSE warnings
    /\ UNCHANGED <<config, isCache, readOnly, driver, purgerDriver, redis,
                   registry, registryOptions, nNewRegistry, reqVars, purgerVars,
                   fnVars, given>>

\* NewApp, lines 225-275: the validation section.
NewAppValidation ==
    /\ napc = "validation"
    /\ IF ~validationEnabled(config)
       THEN /\ napc' = "cache"
            /\ UNCHANGED <<config, options, warnings, panicMsg>>
       ELSE LET u == urlOptions(options, config.allow, config.deny)
                bothEmpty == Len(config.allow) = 0 /\ Len(config.deny) = 0
                allowOK == firstInvalid(config.allow) = 0
            IN  /\ config' = [config EXCEPT
                                !.validationEnabled = TRUE,
                                !.allow = wrapped(@),
                                !.deny = IF allowOK THEN wrapped(@) ELSE @]
                /\ IF u.panic # ""
                   THEN /\ options' = u.options
                        /\ Panic(u.panic)
                        /\ UNCHANGED warnings
                   ELSE /\ options' = indexOptions(u.options, config.platforms,
                                                   config.platformList)
                        /\ warnings' =
                             IF config.platforms \in {"list", "none"}
                             THEN warnings \cup {"Image index completeness validation has been disabled"}
                             ELSE warnings
                        /\ napc' = "cache"
                        /\ UNCHANGED panicMsg
    /\ UNCHANGED <<isCache, readOnly, driver, purgerDriver, redis, registry,
                   registryOptions, nNewRegistry, reqVars, purgerVars, fnVars, given>>

\* storage.NewRegistry(app, app.driver, opts...) succeeds or fails.
NewRegistry(opts, next) ==
    /\ registryOptions' = opts
    /\ nNewRegistry' = nNewRegistry + 1
    /\ \E ok \in BOOLEAN :
        IF ok
        THEN /\ registry' = <<"registry">>
             /\ napc' = next
             /\ UNCHANGED panicMsg
        ELSE /\ Panic("could not create registry")
             /\ UNCHANGED registry

\* NewApp, lines 277-331: the cache section, and the registry.
NewAppCache ==
    /\ napc = "cache"
    /\ LET v == cacheType(config)
       IN  IF config.hasCache /\ v = "redis"
           THEN IF ~redis
                THEN /\ Panic("redis configuration required to use for layerinfo cache")
                     /\ UNCHANGED <<registry, registryOptions, nNewRegistry, warnings>>
                ELSE /\ NewRegistry(Append(options, BlobDescriptorCacheProvider("redis")),
                                    "applyRegistryMiddleware")
                     /\ warnings' =
                          IF config.blobdescriptorsize # Absent
                          THEN warnings \cup {"blobdescriptorsize parameter is not supported with redis cache"}
                          ELSE warnings
           ELSE IF config.hasCache /\ v = "inmemory"
           THEN IF config.blobdescriptorsize # Absent /\ ~AtoiOK(config.blobdescriptorsize)
                THEN /\ Panic("invalid blobdescriptorsize value")
                     /\ UNCHANGED <<registry, registryOptions, nNewRegistry, warnings>>
                ELSE /\ NewRegistry(Append(options, BlobDescriptorCacheProvider("inmemory")),
                                    "applyRegistryMiddleware")
                     /\ UNCHANGED warnings
           ELSE /\ NewRegistry(options, "applyRegistryMiddleware")
                /\ warnings' =
                     IF config.hasCache /\ v # ""
                     THEN warnings \cup {"unknown cache type, caching disabled"}
                     ELSE warnings
    /\ UNCHANGED <<config, isCache, readOnly, driver, purgerDriver, redis,
                   options, reqVars, purgerVars, fnVars, given>>

\* NewApp, lines 333-336.
NewAppRegistryMiddleware ==
    /\ napc = "applyRegistryMiddleware"
    /\ LET r == applyRegistryMiddleware(registry, config.registryMiddleware)
       IN  /\ registry' = r.value
           /\ IF r.err = "nil"
              THEN /\ napc' = "auth"
                   /\ UNCHANGED panicMsg
              ELSE Panic("applyRegistryMiddleware")
    /\ UNCHANGED <<config, isCache, readOnly, driver, purgerDriver, redis,
                   options, registryOptions, nNewRegistry, warnings, reqVars,
                   purgerVars, fnVars, given>>

\* strings.EqualFold(authType, "none")
EqualFoldNone(authType) == authType \in {"none", "None", "NONE"}

\* NewApp, lines 338-347: the access controller.
NewAppAuth ==
    /\ napc = "auth"
    /\ IF config.authType # "" /\ ~EqualFoldNone(config.authType)
       THEN \E ok \in BOOLEAN :
            IF ok
            THEN /\ accessController' = TRUE
                 /\ napc' = "proxy"
                 /\ UNCHANGED panicMsg
            ELSE /\ Panic("unable to configure authorization")
                 /\ UNCHANGED accessController
       ELSE /\ napc' = "proxy"
            /\ UNCHANGED <<accessController, panicMsg>>
    /\ UNCHANGED <<config, isCache, readOnly, driver, purgerDriver, redis,
                   options, registry, registryOptions, nNewRegistry, warnings,
                   reqRest, purgerVars, fnVars, given>>

\* NewApp, lines 349-364: the pull-through cache wraps the registry, and NewApp
\* returns the App.
NewAppProxy ==
    /\ napc = "proxy"
    /\ IF config.proxyRemoteURL # ""
       THEN \E ok \in BOOLEAN :
            IF ok
            THEN /\ registry' = Append(registry, "proxy")
                 /\ isCache' = TRUE
                 /\ napc' = "done"
                 /\ UNCHANGED panicMsg
            ELSE /\ registry' = <<>>
                 /\ Panic("proxy.NewRegistryPullThroughCache")
                 /\ UNCHANGED isCache
       ELSE /\ napc' = "done"
            /\ UNCHANGED <<registry, isCache, panicMsg>>
    /\ UNCHANGED <<config, readOnly, driver, purgerDriver, redis, options,
                   registryOptions, nNewRegistry, warnings, reqVars, purgerVars,
                   fnVars, given>>

\* The platforms of validation.manifests.indexes.platformlist.
PlatformSamples == {<<"amd64", "linux">>, <<"arm64", "linux">>}
PlatformLists == UNION {[1..n -> PlatformSamples] : n \in 0..MaxPlatforms}

\* The configurations NewApp is checked with: each family varies the keys of
\* some sections and leaves the others as in BaseConfig.
ValidationFlags == {<<e, d>> : e \in BOOLEAN, d \in BOOLEAN}
URLConfigs ==
    {[BaseConfig EXCEPT !.validationEnabled = f[1], !.validationDisabled = f[2],
                        !.allow = ad[1], !.deny = ad[2]] :
        f \in ValidationFlags,
        ad \in {p \in PatternLists \X PatternLists :
                    Len(p[1]) + Len(p[2]) <= MaxPatterns}}
IndexConfigs ==
    {[BaseConfig EXCEPT !.validationEnabled = f[1], !.validationDisabled = f[2],
                        !.platforms = p, !.platformList = l] :
        f \in ValidationFlags,
        p \in {"", "all", "list", "none", "some"},
        l \in PlatformLists}
DeleteValues == {Absent, "bool:true", "bool:false", "string:true", "int:1"}
StorageConfigs ==
    {[BaseConfig EXCEPT !.hasDelete = h, !.deleteEnabled = e,
                        !.hasRedirect = r[1], !.redirectDisable = r[2],
                        !.proxyRemoteURL = u] :
        h \in BOOLEAN, e \in DeleteValues,
        r \in {<<FALSE, Absent>>, <<TRUE, Absent>>, <<TRUE, "bool:true">>,
               <<TRUE, "bool:false">>, <<TRUE, "string:true">>},
        u \in {"", "https://upstream"}}
    \cup
    {[BaseConfig EXCEPT !.hasDelete = h, !.deleteEnabled = e,
                        !.tagConcurrency = t, !.registered = g] :
        h \in BOOLEAN, e \in DeleteValues,
        t \in {Absent, "int:0", "int:5", "int:-1", "string:5"},
        g \in {<<>>, <<Option("registered", <<>>)>>}}
Secrets == {<<>>, <<115, 51, 99, 114, 51, 116>>}
ProxyConfigs ==
    {[BaseConfig EXCEPT !.proxyRemoteURL = u, !.httpSecret = s,
                        !.storageMiddleware = sm, !.registryMiddleware = rm] :
        u \in {"", "https://upstream"},
        s \in Secrets,
        sm \in MiddlewareLists,
        rm \in MiddlewareLists}
CacheConfigs ==
    {[BaseConfig EXCEPT !.hasCache = h, !.blobdescriptor = b, !.layerinfo = l,
                        !.blobdescriptorsize = z, !.redisAddrs = n[1],
                        !.redisTLS = n[2], !.redisClientCAs = n[3]] :
        h \in BOOLEAN,
        b \in {Absent, "redis", "inmemory", "", "bogus"},
        l \in {Absent, "redis", "inmemory"},
        z \in {Absent, "int:100", "string:abc"},
        n \in {<<0, FALSE, FALSE>>, <<1, FALSE, FALSE>>, <<1, TRUE, TRUE>>}}
ServerConfigs ==
    {[BaseConfig EXCEPT !.authType = a, !.httpHost = h, !.readonly = r,
                        !.proxyRemoteURL = u] :
        a \in {"", "none", "None", "token"},
        h \in {"", "https://registry.example", "%zz"},
        r \in {Absent, "bool:true", "bool:false", "string:true"},
        u \in {"", "https://upstream"}}
Configs ==
    URLConfigs \cup IndexConfigs \cup StorageConfigs \cup ProxyConfigs
    \cup CacheConfigs \cup ServerConfigs

\* The uploadpurging sections NewApp is checked with.
DisabledConfig == [uploadPurgeDefaultConfig EXCEPT !.enabled = "bool:false"]

InitNewApp ==
    /\ \/ /\ config \in Configs
          /\ storageMaintenance = DisabledConfig
       \/ /\ config \in ServerConfigs
          /\ storageMaintenance \in {NoConfig, NotAMap}
    /\ given = config
    /\ napc = "NewApp"
    /\ panicMsg = ""
    /\ isCache = FALSE
    /\ readOnly = FALSE
    /\ driver = <<>>
    /\ purgerDriver = <<>>
    /\ redis = FALSE
    /\ options = <<>>
    /\ registry = <<>>
    /\ registryOptions = <<>>
    /\ nNewRegistry = 0
    /\ warnings = {}

(***************************************************************************)
(* Specifications.                                                         *)
(***************************************************************************)
IdleRequest ==
    /\ accessController = FALSE
    /\ req = NoReq
    /\ rpc = "idle"
    /\ resp = NewResponse
    /\ ctxUser = FALSE
    /\ ctxErrors = <<>>
    /\ acCalled = FALSE
    /\ acRecords = <<>>
    /\ acResult = "none"
    /\ authErr = "none"
    /\ log = <<>>
    /\ repoMiddleware = <<>>
    /\ repoErr = "none"
    /\ ctxRepository = <<>>

IdlePurger ==
    /\ storageMaintenance = NoConfig
    /\ ppc = "NewApp"
    /\ purgeAge = 0
    /\ purgeInterval = 0
    /\ dryRunBool = FALSE
    /\ randInt = [err |-> FALSE, n |-> <<0, 0, 0>>]
    /\ jitter = -1
    /\ wakeAt = -1
    /\ sleepArg = -1
    /\ sleepFrom = -1
    /\ now = 0
    /\ started = -1
    /\ cancelled = FALSE
    /\ lastSweep = NoSweep
    /\ nSweeps = 0

IdleAppend ==
    /\ arg = NoArg
    /\ out = NoOut

\* The request path.
Init == InitRequest /\ IdlePurger /\ IdleAppend /\ IdleApp
Next ==
    \/ Receive
    \/ ServeHTTP
    \/ Dispatcher
    \/ Authorized
    \/ NameRequired
    \/ Repository
    \/ ApplyRepoMiddleware
    \/ Handler
    \/ Deferred
    \/ Finish
Spec == Init /\ [][Next]_vars

\* The upload purger, from NewApp on.
InitP == IdleRequest /\ InitPurger /\ IdleAppend /\ IdleApp
NextP ==
    \/ StartUploadPurger
    \/ PurgerJitter(FewDraws)
    \/ PurgeUploads
    \/ SleepInterval
    \/ Tick
    \/ Cancel
SpecPurger == InitP /\ [][NextP]_vars

\* The same, with the goroutine scheduled and the clock advancing.
SpecPurgerFair ==
    /\ InitP
    /\ [][NextP]_vars
    /\ WF_vars(StartUploadPurger)
    /\ WF_vars(PurgerJitter(FewDraws))
    /\ WF_vars(PurgeUploads)
    /\ WF_vars(SleepInterval)
    /\ WF_vars(Tick)

\* The jitter of the goroutine, over the draws of rand.Int.
InitJ == IdleRequest /\ IdlePurger /\ IdleAppend /\ IdleApp
NextJ ==
    \/ StartUploadPurger
    \/ PurgerJitter(Draws)
SpecJitter == InitJ /\ [][NextJ]_vars

\* appendAccessRecords over lists, methods and repositories.
InitA == IdleRequest /\ IdlePurger /\ InitAppend /\ IdleApp
NextA == AppendAccessRecords
SpecAppend == InitA /\ [][NextA]_vars

\* NewApp, from its call to its return or panic.
InitN ==
    /\ IdleRequest
    /\ IdleAppend
    /\ InitNewApp
    /\ ppc = "NewApp"
    /\ purgeAge = 0
    /\ purgeInterval = 0
    /\ dryRunBool = FALSE
    /\ randInt = [err |-> FALSE, n |-> <<0, 0, 0>>]
    /\ jitter = -1
    /\ wakeAt = -1
    /\ sleepArg = -1
    /\ sleepFrom = -1
    /\ now = 0
    /\ started = -1
    /\ cancelled = FALSE
    /\ lastSweep = NoSweep
    /\ nSweeps = 0
NextN ==
    \/ NewAppCreate
    \/ NewAppStartUploadPurger
    \/ NewAppStorageMiddleware
    \/ NewAppConfigure
    \/ NewAppOptions
    \/ NewAppValidation
    \/ NewAppCache
    \/ NewAppRegistryMiddleware
    \/ NewAppAuth
    \/ NewAppProxy
SpecNewApp == InitN /\ [][NextN]_vars

(***************************************************************************)
(* Properties of the request path.                                         *)
(***************************************************************************)
Range(q) == {q[i] : i \in 1..Len(q)}
Before(a, b) ==
    \A i \in 1..Len(log) : log[i] = b => \E j \in 1..(i - 1) : log[j] = a
AfterAuthorization == {"WithName", "Repository", "applyRepoMiddleware", "handler"}

\* C1: the route's handler is invoked only if authorization succeeded (no
\* access controller is configured, or the access controller answered with a
\* grant and no error); authorization is decided before the repository name is
\* validated and before the repository is resolved; a request whose
\* authorization failed reaches neither the resolution nor the handler.
C1_AuthorizationGate ==
    /\ "handler" \in Range(log) =>
         /\ authErr = "nil"
         /\ ~accessController \/ (acCalled /\ acResult = "grant")
    /\ authErr = "nil" => ~accessController \/ (acCalled /\ acResult = "grant")
    /\ \A step \in AfterAuthorization : Before("authorized", step)
    /\ authErr = "err" => Range(log) \cap AfterAuthorization = {}
    /\ authErr = "none" => Range(log) \cap AfterAuthorization = {}
C1_Witness ==
    /\ accessController
    /\ acResult = "grant"
    /\ "Repository" \in Range(log)
    /\ "handler" \in Range(log)

\* C3: a request on a named repository with a non-empty `from` form value is
\* submitted to the access controller with {repository:from, pull} in addition
\* to the records its method requires on the target repository.
TargetRecords(method, name) ==
    CASE method \in {"GET", "HEAD"} -> {Access("repository", name, "pull")}
      [] method \in {"POST", "PUT", "PATCH"} ->
            {Access("repository", name, "pull"), Access("repository", name, "push")}
      [] method = "DELETE" -> {Access("repository", name, "delete")}
      [] OTHER -> {}
C3_MountRequiresPullOnSource ==
    (acCalled /\ req.name # "" /\ req.from # "") =>
        /\ Access("repository", req.from, "pull") \in Range(acRecords)
        /\ TargetRecords(req.method, req.name) \subseteq Range(acRecords)
C3_Witness ==
    /\ acCalled
    /\ req.name = "bob/app"
    /\ req.from = "alice/app"
    /\ req.method = "POST"
    /\ acRecords = <<Access("repository", "bob/app", "pull"),
                     Access("repository", "bob/app", "push"),
                     Access("repository", "alice/app", "pull")>>

\* C4: a request with no repository name is submitted to the access controller
\* with exactly {registry:catalog, *} on the catalog route and with no record
\* on the base route; no repository record is added for it.
C4_NoNameRecords ==
    (acCalled /\ req.name = "") =>
        /\ req.route \in {RouteNameBase, RouteNameCatalog}
        /\ req.route = RouteNameCatalog =>
             acRecords = <<Access("registry", "catalog", "*")>>
        /\ req.route = RouteNameBase => acRecords = <<>>
        /\ \A a \in Range(acRecords) : a.type # "repository"
C4_Witness ==
    /\ acCalled
    /\ req.name = ""
    /\ req.from # ""
    /\ req.route = RouteNameCatalog
    /\ acRecords = <<Access("registry", "catalog", "*")>>

\* C5: on a challenge the WWW-Authenticate headers are set and the response
\* is 401 with one JSON UNAUTHORIZED envelope; on any other error of the access
\* controller the response is 400 with no body; in both cases authorized
\* returns the error, the context gets no user and the handler is not invoked.
C5_ChallengeAndError ==
    /\ acResult = "challenge" =>
         /\ WWWAuthenticate \in resp.sent
         /\ resp.status = 401
         /\ Len(resp.body) = 1
         /\ resp.body[1].errors = <<"UNAUTHORIZED">>
    /\ acResult = "error" =>
         /\ resp.status = 400
         /\ resp.body = <<>>
    /\ acResult \in {"challenge", "error"} =>
         /\ authErr = "err"
         /\ ~ctxUser
         /\ "handler" \notin Range(log)
C5_Witness ==
    /\ rpc = "done"
    /\ acResult = "challenge"
    /\ resp.status = 401

C7_APIVersionHeader ==
    (req.entry = "ServeHTTP" /\ rpc # "ServeHTTP") =>
        /\ APIVersionHeader \in resp.headers
        /\ resp.status # 0 => APIVersionHeader \in resp.sent
C7_Witness ==
    /\ req.entry = "ServeHTTP"
    /\ rpc = "done"
    /\ "Repository" \in Range(log)
    /\ resp.status = 404
    /\ APIVersionHeader \in resp.sent

(***************************************************************************)
(* Properties of appendAccessRecords.                                      *)
(***************************************************************************)
\* C2: for a repository, appendAccessRecords appends exactly {pull} for GET and
\* HEAD, exactly {pull} and {push} for POST, PUT and PATCH, and exactly
\* {delete} for DELETE, keeping the records already in the list unchanged and
\* in front.
C2_AppendAccessRecords ==
    out # NoOut =>
        /\ arg.method \in {"GET", "HEAD"} =>
             out = arg.records \o <<Access("repository", arg.repo, "pull")>>
        /\ arg.method \in {"POST", "PUT", "PATCH"} =>
             out = arg.records \o <<Access("repository", arg.repo, "pull"),
                                    Access("repository", arg.repo, "push")>>
        /\ arg.method = "DELETE" =>
             out = arg.records \o <<Access("repository", arg.repo, "delete")>>
C2_Witness ==
    /\ arg.method = "PATCH"
    /\ arg.repo = "bob/app"
    /\ arg.records = <<Access("registry", "catalog", "*"),
                       Access("repository", "alice/app", "delete")>>
    /\ Len(out) = 4
    /\ out[4] = Access("repository", "bob/app", "push")

(***************************************************************************)
(* Properties of the upload purger.                                        *)
(***************************************************************************)
\* C8: whatever rand.Int draws, and also when it fails, the start jitter is a
\* whole number of minutes between 0 and 59, and it is what the goroutine
\* sleeps before its first sweep.
C8_JitterBounded ==
    ppc = "jitter" =>
        /\ jitter % 60 = 0
        /\ 0 <= jitter
        /\ jitter < 60 * 60
        /\ sleepArg = jitter
        /\ wakeAt = sleepFrom + jitter
        /\ nSweeps = 0
        /\ randInt.err => jitter = 30 * 60
C8_Witness ==
    /\ ppc = "jitter"
    /\ ~randInt.err
    /\ randInt.n = <<LimbBase - 1, LimbBase - 1, LimbBase - 2>>
    /\ jitter = 6 * 60

\* The configuration in force: the defaults when none is given.
C9_Config ==
    IF storageMaintenance = NoConfig
    THEN [enabled |-> "bool:true", age |-> "string:168h",
          interval |-> "string:24h", dryrun |-> "bool:false"]
    ELSE storageMaintenance
C9_Seconds(d) ==
    CASE d = "string:168h" -> 604800
      [] d = "string:24h" -> 86400
      [] d = "string:12h" -> 43200
      [] d = "string:1h" -> 3600
      [] OTHER -> -1
C9_Safety ==
    /\ (storageMaintenance = NoConfig /\ ppc # "NewApp") =>
         /\ ppc \in {"go", "jitter", "sleep", "PurgeUploads"}
         /\ purgeAge = 604800
         /\ purgeInterval = 86400
         /\ ~dryRunBool
    /\ ppc \in {"NewApp", "go", "jitter", "disabled", "panic"} => nSweeps = 0
    /\ nSweeps >= 1 =>
         /\ lastSweep.at >= started + jitter
         /\ lastSweep.at >= lastSweep.sleepFrom + lastSweep.sleepArg
         /\ lastSweep.olderThan = lastSweep.at - C9_Seconds(C9_Config.age)
         /\ lastSweep.actuallyDelete = (C9_Config.dryrun = "bool:false")
    /\ nSweeps = 1 => lastSweep.sleepArg = jitter
    /\ nSweeps >= 2 => lastSweep.sleepArg = C9_Seconds(C9_Config.interval)
    /\ ppc = "sleep" =>
         /\ sleepArg = C9_Seconds(C9_Config.interval)
         /\ wakeAt = sleepFrom + sleepArg
         /\ sleepFrom >= lastSweep.at
    /\ C9_Config.enabled = "bool:false" => ppc \in {"NewApp", "disabled"}

\* C9: with purging enabled (the default: age 168h, interval 24h, dryrun
\* false) no sweep happens before the start jitter has elapsed; each sweep
\* purges what is older than the time of the sweep minus age, deleting iff
\* dryrun is false; each sweep is followed by a sleep of exactly interval, and
\* then by the next sweep, without end (as long as the clock of the model
\* runs); with enabled false there is no sweep.
C9_PurgerSchedule ==
    /\ []C9_Safety
    /\ [][ppc = "PurgeUploads" => ppc' \in {"PurgeUploads", "sleep"}]_vars
    /\ [][ppc = "sleep" => ppc' \in {"sleep", "PurgeUploads"}]_vars
    /\ (ppc = "PurgeUploads") ~> (ppc = "sleep")
    /\ (ppc = "sleep" /\ wakeAt + MaxLate <= MaxTime) ~> (ppc = "PurgeUploads")
C9_Witness ==
    /\ storageMaintenance = NoConfig
    /\ nSweeps = 2
    /\ ppc = "sleep"
    /\ lastSweep.olderThan < 0
    /\ lastSweep.actuallyDelete

\* C10: once the application context is cancelled, the purger starts no
\* further sweep.
C10_NoSweepAfterCancel == [][cancelled => nSweeps' = nSweeps]_vars

(***************************************************************************)
(* Properties of the dispatcher's error paths.                             *)
(***************************************************************************)
\* The request's repository name was rejected by reference.WithName.
WithNameFailed ==
    /\ "WithName" \in Range(log)
    /\ ~WithNameOK(getName(req))

\* The code the error envelope is to carry when the repository is not resolved.
ExpectedCode ==
    CASE WithNameFailed -> ErrorCodeNameInvalid
      [] repoErr = "ErrRepositoryUnknown" -> ErrorCodeNameUnknown
      [] repoErr = "ErrRepositoryNameInvalid" -> ErrorCodeNameInvalid
      [] repoErr = "errcode.Error" -> "UNSUPPORTED"
      [] OTHER -> ErrorCodeUnknown

\* C17: when the repository is not resolved (its name is rejected by
\* reference.WithName, or app.registry.Repository fails), no handler runs and
\* the response is an error envelope with the code of the error: NAME_UNKNOWN,
\* NAME_INVALID, the errcode.Error itself, or UNKNOWN with status 500 for any
\* other error.
C17_ResolutionErrors ==
    (rpc = "done" /\ (WithNameFailed \/ repoErr \notin {"none", "nil"})) =>
        /\ "handler" \notin Range(log)
        /\ Len(resp.body) >= 1
        /\ resp.body[1] = Envelope(<<ExpectedCode>>, NoDetail)
        /\ (~WithNameFailed /\ repoErr = "error") => resp.status = 500

\* C19: once App.authorized returned an error and the dispatcher returned,
\* the response carries the status 401 or 400, also when the access
\* controller answered with neither a grant nor an error.
C19_AuthorizationErrorStatus ==
    (rpc = "done" /\ authErr = "err") => resp.status \in {400, 401}

\* C20: a request that names a repository reaches the access controller with
\* at least one access record for that repository, whatever its method.
C20_NamedRequestHasRecord ==
    (acCalled /\ getName(req) # "") =>
        \E i \in 1..Len(acRecords) :
            /\ acRecords[i].type = "repository"
            /\ acRecords[i].name = getName(req)

(***************************************************************************)
(* Properties of NewApp.                                                   *)
(***************************************************************************)
\* NewApp returned the App.
Returned == napc = "done"

\* Manifest validation is enabled by the configuration NewApp was given.
ValidationOn == given.validationEnabled \/ ~given.validationDisabled

\* Where the options the registry was built with hold an option of a name.
OptionsNamed(name) ==
    {i \in 1..Len(registryOptions) : registryOptions[i].name = name}

\* A URL matches one of a list of patterns.
SomeMatches(list, u) == \E k \in 1..Len(list) : MatchString(list[k], u)

\* C11: with validation enabled and both URL lists empty, the registry is
\* built with one allow regexp, which no manifest URL matches, and with no
\* deny regexp.
C11_EmptyListsAllowNothing ==
    (Returned /\ ValidationOn /\ Len(given.allow) = 0 /\ Len(given.deny) = 0) =>
        /\ Cardinality(OptionsNamed("ManifestURLsAllowRegexp")) = 1
        /\ \A i \in OptionsNamed("ManifestURLsAllowRegexp") :
              \A u \in URLs : ~MatchString(registryOptions[i].arg, u)
        /\ OptionsNamed("ManifestURLsDenyRegexp") = {}
C11_Witness ==
    /\ Returned
    /\ ValidationOn
    /\ Len(given.allow) = 0
    /\ Len(given.deny) = 0
    /\ nNewRegistry = 1
    /\ OptionsNamed("ManifestURLsAllowRegexp") # {}

\* C12: with validation enabled and a URL list that is not empty, the registry
\* is built with an allow regexp iff the allow list is not empty, and that
\* regexp matches a URL iff one of the allow patterns matches it; the same
\* holds of the deny regexp and the deny list.
C12_URLRegexps ==
    (Returned /\ ValidationOn /\ Len(given.allow) + Len(given.deny) > 0) =>
        /\ Cardinality(OptionsNamed("ManifestURLsAllowRegexp"))
             = IF Len(given.allow) > 0 THEN 1 ELSE 0
        /\ \A i \in OptionsNamed("ManifestURLsAllowRegexp") :
              \A u \in URLs :
                 MatchString(registryOptions[i].arg, u) <=> SomeMatches(given.allow, u)
        /\ Cardinality(OptionsNamed("ManifestURLsDenyRegexp"))
             = IF Len(given.deny) > 0 THEN 1 ELSE 0
        /\ \A i \in OptionsNamed("ManifestURLsDenyRegexp") :
              \A u \in URLs :
                 MatchString(registryOptions[i].arg, u) <=> SomeMatches(given.deny, u)
C12_Witness ==
    /\ Returned
    /\ ValidationOn
    /\ given.allow = <<<<"(?i)", "a", "$">>, <<"a", "b">>>>
    /\ OptionsNamed("ManifestURLsAllowRegexp") # {}
    /\ \E i \in OptionsNamed("ManifestURLsAllowRegexp") :
          /\ MatchString(registryOptions[i].arg, <<"b", "A">>)
          /\ ~MatchString(registryOptions[i].arg, <<"A", "b">>)

\* The options of a name the registry was built with, in order.
IsPlatformOption(o) == o.name = "AddValidateImageIndexImagesExistPlatform"
PlatformOptions == SelectSeq(registryOptions, IsPlatformOption)

\* C13: with validation enabled, the registry is built with the option that
\* enables image index validation for every value of platforms but none (all,
\* list, an unknown value, no value), never with more than one such option,
\* and with platform restrictions only for list: one for each platform of
\* platformlist.
C13_IndexValidation ==
    (Returned /\ ValidationOn) =>
        /\ Cardinality(OptionsNamed("EnableValidateImageIndexImagesExist"))
             = IF given.platforms = "none" THEN 0 ELSE 1
        /\ Len(PlatformOptions) > 0 => given.platforms = "list"
        /\ given.platforms = "list" =>
              /\ Len(PlatformOptions) = Len(given.platformList)
              /\ \A i \in 1..Len(PlatformOptions) :
                    PlatformOptions[i].arg = given.platformList[i]
C13_Witness ==
    /\ Returned
    /\ ValidationOn
    /\ given.platforms = "list"
    /\ Len(given.platformList) = 2
    /\ given.platformList[1] # given.platformList[2]
    /\ Len(PlatformOptions) = 2
    /\ OptionsNamed("EnableValidateImageIndexImagesExist") # {}

\* The configuration NewApp was given names a remote registry.
IsProxy == given.proxyRemoteURL # ""

\* C14: the registry is built with DisableDigestResumption iff proxy.remoteurl
\* is not empty; in exactly that case app.isCache is true and the registry
\* NewApp returns is the pull-through cache around the registry.
C14_PullThroughCache ==
    Returned =>
        /\ (OptionsNamed("DisableDigestResumption") # {}) <=> IsProxy
        /\ isCache <=> IsProxy
        /\ ("proxy" \in Range(registry)) <=> IsProxy
        /\ IsProxy => registry[Len(registry)] = "proxy"
C14_Witness ==
    /\ Returned
    /\ IsProxy
    /\ isCache
    /\ OptionsNamed("DisableDigestResumption") # {}
    /\ Len(given.registryMiddleware) = 2
    /\ registry[Len(registry)] = "proxy"

\* NewApp logged that it generated a secret.
SecretWarning == "No HTTP secret provided" \in warnings

\* C15: once NewApp returned, an empty http.secret has been replaced by a
\* random secret of 32 bytes, with a warning; a configured secret is never
\* changed.
C15_Secret ==
    /\ (Returned /\ Len(given.httpSecret) = 0) =>
          /\ Len(config.httpSecret) = randomSecretSize
          /\ SecretWarning
    /\ Len(given.httpSecret) > 0 => config.httpSecret = given.httpSecret

\* C15, amended: once NewApp returned, an empty http.secret has been replaced
\* by a random secret of 32 bytes, with a warning, unless proxy.remoteurl is
\* set, and then it is still empty and no warning was logged; a configured
\* secret is never changed.
C15_SecretUnlessProxy ==
    /\ (Returned /\ Len(given.httpSecret) = 0 /\ ~IsProxy) =>
          /\ Len(config.httpSecret) = randomSecretSize
          /\ config.httpSecret \in RandomBytes
          /\ SecretWarning
    /\ (Returned /\ Len(given.httpSecret) = 0 /\ IsProxy) =>
          /\ Len(config.httpSecret) = 0
          /\ ~SecretWarning
    /\ Len(given.httpSecret) > 0 =>
          /\ config.httpSecret = given.httpSecret
          /\ ~SecretWarning
C15_Witness ==
    /\ Returned
    /\ Len(given.httpSecret) = 0
    /\ ~IsProxy
    /\ Len(config.httpSecret) = randomSecretSize
    /\ SecretWarning

\* storage.delete.enabled is the boolean true.
DeleteOn == given.hasDelete /\ given.deleteEnabled = "bool:true"

\* The panics of NewApp that are not about its configuration: the storage
\* driver, rand.Read or storage.NewRegistry failed.
EnvironmentPanics ==
    {"factory.Create", "could not generate random bytes for HTTP secret",
     "could not create registry"}

\* The configuration NewApp was given sets no key outside storage.delete, but
\* for a well-formed uploadpurging section.
OnlyDelete ==
    /\ [given EXCEPT !.hasDelete = FALSE, !.deleteEnabled = Absent] = BaseConfig
    /\ storageMaintenance = DisabledConfig

\* C16: the registry is built with EnableDelete iff storage.delete.enabled is
\* the boolean true; no other value of the key, and no missing key or
\* section, makes NewApp panic.
C16_Delete ==
    /\ Returned => ((OptionsNamed("EnableDelete") # {}) <=> DeleteOn)
    /\ (napc = "panic" /\ OnlyDelete) => panicMsg \in EnvironmentPanics
C16_Witness ==
    /\ Returned
    /\ given.hasDelete
    /\ given.deleteEnabled = "string:true"
    /\ OnlyDelete
    /\ OptionsNamed("EnableDelete") = {}
    /\ nNewRegistry = 1

\* The names of a middleware list, in configuration order.
Names(middlewares) == [i \in 1..Len(middlewares) |-> middlewares[i].name]
SomeFails(middlewares) == \E i \in 1..Len(middlewares) : middlewares[i].fails

\* C18: the upload purger is started on the storage driver itself, before the
\* storage middlewares wrap it; the storage middlewares and the registry
\* middlewares wrap the driver and the registry in configuration order; the
\* pull-through cache wraps the registry last; and a middleware that fails to
\* construct leaves nil, not a partly wrapped value, in the hands of the
\* caller.
C18_DecoratorOrder ==
    /\ napc \in {"NewApp", "startUploadPurger"} => Len(purgerDriver) = 0
    /\ napc = "startUploadPurger" => driver = <<"driver">>
    /\ Len(purgerDriver) > 0 => purgerDriver = <<"driver">>
    /\ napc \in {"configure", "options", "validation", "cache",
                  "applyRegistryMiddleware", "auth", "proxy", "done"} =>
          /\ purgerDriver = <<"driver">>
          /\ driver = <<"driver">> \o Names(given.storageMiddleware)
    /\ napc \in {"auth", "proxy"} =>
          registry = <<"registry">> \o Names(given.registryMiddleware)
    /\ Returned =>
          registry = <<"registry">> \o Names(given.registryMiddleware)
                       \o (IF IsProxy THEN <<"proxy">> ELSE <<>>)
    /\ panicMsg = "applyStorageMiddleware" =>
          /\ SomeFails(given.storageMiddleware)
          /\ driver = <<>>
    /\ panicMsg = "applyRegistryMiddleware" =>
          /\ SomeFails(given.registryMiddleware)
          /\ registry = <<>>
    /\ (rpc \in {"deferred", "done"} /\ "applyRepoMiddleware" \in Range(log)
          /\ SomeFails(repoMiddleware)) =>
          ctxRepository = <<>>
    /\ rpc = "handler" /\ "applyRepoMiddleware" \in Range(log) =>
          ctxRepository = <<"repository">> \o Names(repoMiddleware)
C18_Witness ==
    /\ Returned
    /\ IsProxy
    /\ Len(given.storageMiddleware) = 2
    /\ Len(given.registryMiddleware) = 2
    /\ given.registryMiddleware[1] # given.registryMiddleware[2]
    /\ purgerDriver = <<"driver">>
    /\ Len(driver) = 3
    /\ Len(registry) = 4

(***************************************************************************)
(* Properties of the dispatcher's deferred error handler.                  *)
(***************************************************************************)
\* The error envelopes written to the response so far.
IsEnvelope(b) == "errors" \in DOMAIN b
Envelopes == SelectSeq(resp.body, IsEnvelope)

\* C21: the dispatcher writes the error envelope to the response at most
\* once: an error it served inline (name rejected, repository not resolved,
\* repository middleware failed) is not served again by the deferred function.
C21_EnvelopeOnce ==
    ("dispatcher" \in Range(log)) => Len(Envelopes) <= 1

(***************************************************************************)
(* Properties of NewApp: validation switch and registry construction.      *)
(***************************************************************************)
\* The options of the validation section.
ValidationOptionNames ==
    {"ManifestURLsAllowRegexp", "ManifestURLsDenyRegexp",
     "EnableValidateImageIndexImagesExist",
     "AddValidateImageIndexImagesExistPlatform"}

\* C22: once NewApp returned, config.Validation.Enabled is true iff
\* validation.enabled was true or validation.disabled was false; when it is
\* false the registry is built with no URL allow regexp, no URL deny regexp
\* and no index validation option.
C22_ValidationSwitch ==
    Returned =>
        /\ config.validationEnabled
             <=> (given.validationEnabled \/ ~given.validationDisabled)
        /\ ~config.validationEnabled =>
              \A n \in ValidationOptionNames : OptionsNamed(n) = {}
        /\ config.validationEnabled =>
              \E n \in ValidationOptionNames : OptionsNamed(n) # {}
C22_Witness ==
    /\ Returned
    /\ ~given.validationEnabled
    /\ given.validationDisabled
    /\ Len(given.allow) > 0
    /\ Len(given.deny) > 0
    /\ ~config.validationEnabled
    /\ nNewRegistry = 1
    /\ \A n \in ValidationOptionNames : OptionsNamed(n) = {}

\* The cache type the configuration NewApp was given asks for: nothing
\* without a cache section, else blobdescriptor, or layerinfo when the
\* blobdescriptor key is absent.
CacheAsked ==
    IF ~given.hasCache THEN Absent
    ELSE IF given.blobdescriptor = Absent THEN given.layerinfo
    ELSE given.blobdescriptor

\* The blob descriptor cache providers among the registry's options.
CacheProviders == OptionsNamed("BlobDescriptorCacheProvider")

\* C23: once NewApp returned, the storage registry was constructed exactly
\* once and app.registry is not nil; a blob descriptor cache provider is among
\* its options iff the cache type asked for is redis or inmemory, and then it
\* is the provider of that type; NewApp never constructs the registry twice;
\* with the redis cache asked for, NewApp returns only with a redis client,
\* never when no redis address is configured, and the panic for the missing
\* client comes before any registry is constructed.
C23_RegistryConstruction ==
    /\ nNewRegistry <= 1
    /\ Returned =>
         /\ nNewRegistry = 1
         /\ Len(registry) > 0
         /\ CacheProviders # {} <=> CacheAsked \in {"redis", "inmemory"}
         /\ \A i \in CacheProviders : registryOptions[i].arg = <<CacheAsked>>
         /\ Cardinality(CacheProviders) <= 1
         /\ CacheAsked = "redis" => redis /\ given.redisAddrs > 0
    /\ (napc = "panic"
          /\ panicMsg = "redis configuration required to use for layerinfo cache") =>
         /\ CacheAsked = "redis"
         /\ ~redis
         /\ nNewRegistry = 0
    /\ (CacheAsked = "redis" /\ ~redis
          /\ napc \in {"applyRegistryMiddleware", "auth", "proxy", "done"}) => FALSE
C23_Witness ==
    /\ Returned
    /\ given.hasCache
    /\ given.blobdescriptor = Absent
    /\ given.layerinfo = "redis"
    /\ redis
    /\ nNewRegistry = 1
    /\ CacheProviders # {}
    /\ registryOptions[Len(registryOptions)] = BlobDescriptorCacheProvider("redis")
=============================================================================
